---- MODULE Spec2Model ----
(***************************************************************************)
(* Model of purruyura.py: a blackjack game between one player (p2) and the *)
(* dealer (p1), who share one CardDeck (cd), driven by the commands of a   *)
(* cmd.Cmd loop.  One action per command handler; each handler is modelled *)
(* whole, including the Player and CardDeck methods it calls.              *)
(***************************************************************************)
EXTENDS Integers, Sequences, FiniteSets, TLC

VARIABLES cd, p1, p2, playing, quitting, history, stop, error

vars == <<cd, p1, p2, playing, quitting, history, stop, error>>

(***************************************************************************)
(* Bounds of the model.  The program builds 4 suits of ranks 1..13; the    *)
(* model builds the suits of Suits with the ranks of Ranks only, so that   *)
(* every order random.shuffle can produce is explored.  The ranks are high *)
(* enough that, as with the 52 cards, a hand of 21 or less never holds all *)
(* the cards the dealer does not hold.                                     *)
(***************************************************************************)
Suits == <<"Diamonds">>

Ranks == <<4, 6, 7, 8, 9, 13>>

MaxScore == 2

HistLen == 3

(***************************************************************************)
(* Card                                                                    *)
(***************************************************************************)
Card(suit, rank) ==
    [suit  |-> suit,
     rank  |-> rank,
     value |-> IF rank > 1 /\ rank < 11 THEN rank ELSE 10]

(***************************************************************************)
(* CardDeck                                                                *)
(***************************************************************************)
CardDeck == [deck |-> <<>>, discard |-> <<>>]

_append_suit_to_deck(c, suit) ==
    [c EXCEPT !.deck = @ \o [i \in 1..Len(Ranks) |-> Card(suit, Ranks[i])]]

RECURSIVE AppendSuits(_, _)
AppendSuits(c, i) ==
    IF i > Len(Suits) THEN c
    ELSE AppendSuits(_append_suit_to_deck(c, Suits[i]), i + 1)

create_unshuffled_deck(c) == AppendSuits(c, 1)

\* random.shuffle: every arrangement of the list is a possible outcome
shuffle(s) ==
    {[i \in 1..Len(s) |-> s[p[i]]] : p \in Permutations(1..Len(s))}

shuffle_deck(c) == {[c EXCEPT !.deck = d] : d \in shuffle(c.deck)}

\* list.pop(): the last element, or IndexError on an empty list
deal_card(c) ==
    IF Len(c.deck) = 0
    THEN [card |-> <<>>, cd |-> c, error |-> "IndexError"]
    ELSE [card  |-> <<c.deck[Len(c.deck)]>>,
          cd    |-> [c EXCEPT !.deck = SubSeq(@, 1, Len(@) - 1)],
          error |-> "none"]

\* shuffle_in_discards without "self.discard = []"
shuffle_in_discards_keeps(c) ==
    shuffle_deck([c EXCEPT !.deck = c.deck \o c.discard])

shuffle_in_discards(c) ==
    shuffle_deck([deck |-> c.deck \o c.discard, discard |-> <<>>])

(***************************************************************************)
(* Player                                                                  *)
(***************************************************************************)
Player == [hand |-> <<>>, score |-> 0]

RECURSIVE SumValues(_)
SumValues(hand) ==
    IF hand = <<>> THEN 0 ELSE Head(hand).value + SumValues(Tail(hand))

RECURSIVE CountAces(_)
CountAces(hand) ==
    IF hand = <<>> THEN 0
    ELSE (IF Head(hand).rank = 1 THEN 1 ELSE 0) + CountAces(Tail(hand))

\* the correction applied to one Ace only
total_hand_one_ace(hand) ==
    LET result == SumValues(hand)
    IN  IF result > 21 /\ CountAces(hand) > 0 THEN result - 9 ELSE result

total_hand(hand) ==
    LET result == SumValues(hand)
    IN  IF result > 21 THEN result - 9 * CountAces(hand) ELSE result

\* Player.hit on the player pl with the shared deck c: the set of outcomes
\* [pl, cd, error], one per order the reshuffle can produce
hit(pl, c) ==
    LET deal(d) ==
            LET r == deal_card(d)
            IN  [pl    |-> [pl EXCEPT !.hand = @ \o r.card],
                 cd    |-> r.cd,
                 error |-> r.error]
    IN  IF Len(c.deck) > 0
        THEN {deal(c)}
        ELSE {deal(d) : d \in shuffle_in_discards(c)}

\* discard without "self.deck.discard.extend(self.hand)": the hand is lost
discard_drops_hand(pl, c) ==
    [pl |-> [pl EXCEPT !.hand = <<>>],
     cd |-> c]

\* discard without "self.hand = []": the discarded cards stay in the hand too
discard_keeps_hand(pl, c) ==
    [pl |-> pl,
     cd |-> [c EXCEPT !.discard = @ \o pl.hand]]

\* Player.discard: the hand goes to the end of the deck's discard list
discard(pl, c) ==
    [pl |-> [pl EXCEPT !.hand = <<>>],
     cd |-> [c EXCEPT !.discard = @ \o pl.hand]]

(***************************************************************************)
(* _BlackJackGame                                                          *)
(***************************************************************************)
\* One hit of start_game on a game g = [cd, p1, p2, error]; who is "p1" or
\* "p2".  After an exception nothing more of start_game runs.
HitStep(g, who) ==
    IF g.error # "none" THEN {g}
    ELSE {[g EXCEPT ![who] = r.pl, !.cd = r.cd, !.error = r.error] :
            r \in hit(g[who], g.cd)}

\* start_game without the last p2.hit()
start_game_three_hits(g) ==
    UNION {UNION {HitStep(g2, "p1") : g2 \in HitStep(g1, "p2")} :
             g1 \in HitStep(g, "p1")}

\* start_game dealing to the player first
start_game_player_first(g) ==
    UNION {UNION {UNION {HitStep(g3, "p1") : g3 \in HitStep(g2, "p2")} :
                    g2 \in HitStep(g1, "p1")} :
             g1 \in HitStep(g, "p2")}

\* start_game: p1.hit(); p2.hit(); p1.hit(); p2.hit()
start_game(g) ==
    UNION {UNION {UNION {HitStep(g3, "p2") : g3 \in HitStep(g2, "p1")} :
                    g2 \in HitStep(g1, "p2")} :
             g1 \in HitStep(g, "p1")}

\* __init__: a shuffled deck, two players, start_game
Init ==
    \E c \in shuffle_deck(create_unshuffled_deck(CardDeck)) :
        \E g \in start_game([cd |-> c, p1 |-> Player, p2 |-> Player,
                             error |-> "none"]) :
            /\ cd = g.cd
            /\ p1 = g.p1
            /\ p2 = g.p2
            /\ error = g.error
            /\ playing = TRUE
            /\ quitting = FALSE
            /\ history = <<>>
            /\ stop = FALSE

\* The command cmdloop dispatched last (cmd.Cmd.lastcmd), "" before the first
lastcmd == IF history = <<>> THEN "" ELSE history[Len(history)]

\* history keeps the last command; from a no that asked for confirmation (the
\* only no after which the loop goes on) it keeps up to HistLen commands, for
\* as long as the round that no was issued in is being played
Record(c) ==
    IF /\ history # <<>>
       /\ history[1] = "no"
       /\ Len(history) < HistLen
       /\ playing'
    THEN Append(history, c)
    ELSE <<c>>

\* cmdloop takes a command while no handler has returned True and no
\* exception has ended the loop
Running == ~stop /\ error = "none"

\* The scores are unbounded counters: once MaxScore points have been awarded
\* in all, the model takes no further hit, pass or yes
ScoresBelowMax == p1.score + p2.score < MaxScore

\* the handlers without "self.quitting = False"
ResetQuitting_skipped == UNCHANGED quitting

\* self.quitting = False, the first statement of do_hit, do_pass and do_yes
ResetQuitting == quitting' = FALSE

\* "<= 22" for "<= 21": a total of 22 does not end the round
NotBusted_upto22(hand) == total_hand(hand) <= 22

\* "<" for "<=": a total of exactly 21 counts as a bust
NotBusted_below21(hand) == total_hand(hand) < 21

\* if self.p2.total_hand() <= 21
NotBusted(hand) == total_hand(hand) <= 21

\* do_hit while playing: p2.hit(), then the bust test
HitPlaying ==
    \E r \in hit(p2, cd) :
        /\ cd' = r.cd
        /\ p2' = r.pl
        /\ error' = r.error
        /\ IF r.error = "none" /\ ~NotBusted(r.pl.hand)
           THEN /\ p1' = [p1 EXCEPT !.score = @ + 1]
                /\ playing' = FALSE
           ELSE UNCHANGED <<p1, playing>>

\* do_hit without "if(self.playing)": the player draws after the round too
HitNotPlaying_deals == HitPlaying

\* do_hit while not playing: only the prompt is printed
HitNotPlaying == UNCHANGED <<cd, p1, p2, playing, error>>

do_hit ==
    /\ Running
    /\ ScoresBelowMax
    /\ ResetQuitting
    /\ IF playing THEN HitPlaying ELSE HitNotPlaying
    /\ UNCHANGED stop
    /\ history' = Record("hit")

\* the dealer standing on 17
DealerMustDraw_17(hand) == total_hand(hand) < 17

\* while self.p1.total_hand() < 18
DealerMustDraw(hand) == total_hand(hand) < 18

\* the dealer drawing as Player.hit does: an empty deck is refilled from the
\* discards (in their order) before the card is dealt
RECURSIVE DealerDraws_recycles(_, _)
DealerDraws_recycles(pl, c) ==
    IF DealerMustDraw(pl.hand)
    THEN LET d == IF c.deck = <<>>
                  THEN [deck |-> c.discard, discard |-> <<>>]
                  ELSE c
             r == deal_card(d)
         IN  IF r.error # "none"
             THEN [pl |-> pl, cd |-> c, error |-> r.error]
             ELSE DealerDraws_recycles([pl EXCEPT !.hand = @ \o r.card], r.cd)
    ELSE [pl |-> pl, cd |-> c, error |-> "none"]

\* the loop of do_pass: self.p1.hand.append(self.cd.deal_card()), which
\* ends in IndexError when the deck runs out
RECURSIVE DealerDraws(_, _)
DealerDraws(pl, c) ==
    IF DealerMustDraw(pl.hand)
    THEN LET r == deal_card(c)
         IN  IF r.error # "none"
             THEN [pl |-> pl, cd |-> c, error |-> r.error]
             ELSE DealerDraws([pl EXCEPT !.hand = @ \o r.card], r.cd)
    ELSE [pl |-> pl, cd |-> c, error |-> "none"]

\* ">" for ">=" at line 399: equal totals of 21 or less go to the player
Winner_strict(d, p) ==
    IF d > 21
    THEN IF p > 21 THEN "tie" ELSE "p2"
    ELSE IF d > p THEN "p1"
         ELSE IF p <= 21 THEN "p2" ELSE "p1"

\* the if/else of do_pass on the dealer's total d and the player's total p:
\* whose score gets the point
Winner(d, p) ==
    IF d > 21
    THEN IF p > 21 THEN "tie" ELSE "p2"
    ELSE IF d >= p THEN "p1"
         ELSE IF p <= 21 THEN "p2" ELSE "p1"

AddScore(pl, who, w) == IF w = who THEN [pl EXCEPT !.score = @ + 1] ELSE pl

\* do_pass (also do_stand)
do_pass ==
    /\ Running
    /\ ScoresBelowMax
    /\ ResetQuitting
    /\ LET r == DealerDraws(p1, cd)
           w == Winner(total_hand(r.pl.hand), total_hand(p2.hand))
       IN  /\ cd' = r.cd
           /\ error' = r.error
           /\ IF r.error # "none"
              THEN /\ p1' = r.pl
                   /\ UNCHANGED <<p2, playing>>
              ELSE /\ p1' = AddScore(r.pl, "p1", w)
                   /\ p2' = AddScore(p2, "p2", w)
                   /\ playing' = FALSE
    /\ UNCHANGED stop
    /\ history' = Record("pass")

\* do_yes while not playing: both hands are discarded and start_game deals
YesNotPlaying ==
    LET d1 == discard(p1, cd)
        d2 == discard(p2, d1.cd)
    IN  \E g \in start_game([cd |-> d2.cd, p1 |-> d1.pl, p2 |-> d2.pl,
                             error |-> "none"]) :
            /\ cd' = g.cd
            /\ p1' = g.p1
            /\ p2' = g.p2
            /\ error' = g.error
            /\ playing' = TRUE

\* do_yes without "if not self.playing": a new deal in mid-round
YesPlaying_deals == YesNotPlaying

\* do_yes while playing: only the rejection is printed
YesPlaying == UNCHANGED <<cd, p1, p2, playing, error>>

\* do_yes (also do_newHand, do_another)
do_yes ==
    /\ Running
    /\ ScoresBelowMax
    /\ ResetQuitting
    /\ IF ~playing THEN YesNotPlaying ELSE YesPlaying
    /\ UNCHANGED stop
    /\ history' = Record("yes")

\* do_no without the confirmation: the first no in a round ends the session
do_no_unconfirmed ==
    /\ Running
    /\ stop' = TRUE
    /\ UNCHANGED <<cd, p1, p2, playing, quitting, error>>
    /\ history' = Record("no")

\* do_no (also do_EOF, do_quit, do_exit); returning True ends cmdloop
do_no ==
    /\ Running
    /\ IF ~playing
       THEN stop' = TRUE /\ UNCHANGED quitting
       ELSE IF quitting
            THEN stop' = TRUE /\ UNCHANGED quitting
            ELSE quitting' = TRUE /\ UNCHANGED stop
    /\ UNCHANGED <<cd, p1, p2, playing, error>>
    /\ history' = Record("no")

\* a default that resets the confirmation as the do_ handlers do
default_resets ==
    /\ Running
    /\ ResetQuitting
    /\ UNCHANGED <<cd, p1, p2, playing, stop, error>>
    /\ history' = Record("unknown")

\* cmd.Cmd.default, which _BlackJackGame does not override: a line that
\* names no do_ method is reported and nothing else happens
default ==
    /\ Running
    /\ UNCHANGED <<cd, p1, p2, playing, quitting, stop, error>>
    /\ history' = Record("unknown")

Next == do_hit \/ do_pass \/ do_yes \/ do_no \/ default

Spec == Init /\ [][Next]_vars

TypeOK ==
    /\ playing \in BOOLEAN
    /\ quitting \in BOOLEAN
    /\ stop \in BOOLEAN
    /\ error \in {"none", "IndexError"}
    /\ p1.score \in 0..MaxScore
    /\ p2.score \in 0..MaxScore
    /\ Len(history) <= HistLen

(***************************************************************************)
(* The session from the deal of a later round.  After some rounds of the   *)
(* program the cards that are not in the draw pile lie in the discard      *)
(* pile, in any proportion, and do_yes has just discarded both hands:      *)
(* start_game deals from there.  With all the cards in the draw pile this  *)
(* is the session start.  The draw pile holds the four cards of the deal:  *)
(* with fewer the deal shuffles the discards in and ends as it does from   *)
(* a full draw pile.                                                       *)
(***************************************************************************)
InitLaterRound ==
    \E d \in shuffle(create_unshuffled_deck(CardDeck).deck) :
        \E j \in 4..Len(d) :
            \E g \in start_game([cd |-> [deck    |-> SubSeq(d, 1, j),
                                         discard |-> SubSeq(d, j + 1, Len(d))],
                                 p1 |-> Player, p2 |-> Player,
                                 error |-> "none"]) :
                /\ cd = g.cd
                /\ p1 = g.p1
                /\ p2 = g.p2
                /\ error = g.error
                /\ playing = TRUE
                /\ quitting = FALSE
                /\ history = <<>>
                /\ stop = FALSE

SpecLaterRound == InitLaterRound /\ [][Next]_vars

(***************************************************************************)
(* Player.hit and start_game, each applied once to the piles of any        *)
(* moment of a session: the hands are empty (before a deal) or hold        *)
(* two cards each (after it), and the other cards are split between the    *)
(* draw pile and the discard pile in any proportion and order (before a   *)
(* deal the draw pile holds 2 cards or more, which keeps the reshuffles of *)
(* a deal to those of 4 cards).  history names the method applied and, for *)
(* Player.hit, the branch it took.                                         *)
(***************************************************************************)
\* the hand sizes of the configurations: before a deal, after a deal
HandSizes == {0, 2}

InitPiles ==
    \E d \in shuffle(create_unshuffled_deck(CardDeck).deck) :
        \E h \in HandSizes :
            \E j \in (IF h = 0 THEN 2 ELSE 2 * h)..Len(d) :
                /\ p1 = [Player EXCEPT !.hand = SubSeq(d, 1, h)]
                /\ p2 = [Player EXCEPT !.hand = SubSeq(d, h + 1, 2 * h)]
                /\ cd = [deck    |-> SubSeq(d, 2 * h + 1, j),
                         discard |-> SubSeq(d, j + 1, Len(d))]
                /\ playing \in BOOLEAN
                /\ quitting \in BOOLEAN
                /\ history = <<>>
                /\ stop = FALSE
                /\ error = "none"

\* p2.hit()
PlayerHit ==
    /\ history = <<>>
    /\ \E r \in hit(p2, cd) :
           /\ cd' = r.cd
           /\ p2' = r.pl
           /\ error' = r.error
    /\ UNCHANGED <<p1, playing, quitting, stop>>
    /\ history' = <<"Player.hit",
                    IF Len(cd.deck) > 0 THEN "dealt" ELSE "recycled">>

\* start_game() on empty hands, as __init__ and do_yes call it; the flags
\* are set after the four hits
StartGame ==
    /\ history = <<>>
    /\ p1.hand = <<>>
    /\ p2.hand = <<>>
    /\ \E g \in start_game([cd |-> cd, p1 |-> p1, p2 |-> p2,
                            error |-> "none"]) :
           /\ cd' = g.cd
           /\ p1' = g.p1
           /\ p2' = g.p2
           /\ error' = g.error
           /\ IF g.error = "none"
              THEN playing' = TRUE /\ quitting' = FALSE
              ELSE UNCHANGED <<playing, quitting>>
    /\ UNCHANGED stop
    /\ history' = <<"start_game">>

NextPiles == PlayerHit \/ StartGame

SpecPiles == InitPiles /\ [][NextPiles]_vars

(***************************************************************************)
(* total_hand applied to hands of up to MaxHand cards of any ranks; the    *)
(* i-th card of a hand is of the i-th suit, so the cards of a hand are     *)
(* distinct.  history holds the value returned.                            *)
(***************************************************************************)
MaxHand == 3

AllSuits == <<"Diamonds", "Spades", "Hearts", "Clubs">>

AllRanks == 1..13

Hands ==
    UNION {{[i \in 1..n |-> Card(AllSuits[i], r[i])] :
              r \in [1..n -> AllRanks]} : n \in 0..MaxHand}

InitTotal ==
    /\ cd = CardDeck
    /\ p1 = Player
    /\ \E h \in Hands : p2 = [Player EXCEPT !.hand = h]
    /\ playing = TRUE
    /\ quitting = FALSE
    /\ history = <<>>
    /\ stop = FALSE
    /\ error = "none"

\* p2.total_hand()
CallTotalHand ==
    /\ history = <<>>
    /\ history' = <<"total_hand", total_hand(p2.hand)>>
    /\ UNCHANGED <<cd, p1, p2, playing, quitting, stop, error>>

NextTotal == CallTotalHand

SpecTotal == InitTotal /\ [][NextTotal]_vars

(***************************************************************************)
(* Properties                                                              *)
(***************************************************************************)
\* the cards create_unshuffled_deck builds (52 in the program)
FullDeck == create_unshuffled_deck(CardDeck).deck

\* how many times card occurs in the sequence s
Occurrences(s, card) == Cardinality({i \in 1..Len(s) : s[i] = card})

\* C1: in every reachable state each card of the deck is in exactly one of
\* the dealer's hand, the player's hand, the draw pile and the discard pile:
\* the four sizes sum to the size of the deck and no card is duplicated or
\* lost.
C1_CardsConserved ==
    LET all == p1.hand \o p2.hand \o cd.deck \o cd.discard
    IN  /\ Len(p1.hand) + Len(p2.hand) + Len(cd.deck) + Len(cd.discard)
             = Len(FullDeck)
        /\ \A i \in 1..Len(FullDeck) : Occurrences(all, FullDeck[i]) = 1

\* C1 witness: a later round, dealt from discarded cards, in which the
\* player has hit and a card is left in the draw pile
C1_Witness ==
    /\ p1.score + p2.score >= 1
    /\ playing
    /\ lastcmd = "hit"
    /\ Len(p2.hand) = 3
    /\ Len(cd.deck) = 1

\* C2: when pass resolves with dealer total D and player total P, exactly
\* one outcome is applied: D>21 and P>21 changes no score; D>21 and P<=21
\* adds 1 to the player's score only; D<=21 and D>=P adds 1 to the dealer's
\* only; D<=21, D<P and P<=21 adds 1 to the player's only; D<=21, D<P and
\* P>21 adds 1 to the dealer's only.
C2_PassOutcome ==
    [][(lastcmd' = "pass" /\ error' = "none") =>
        LET D == total_hand(p1'.hand)
            P == total_hand(p2'.hand)
            none   == p1'.score = p1.score /\ p2'.score = p2.score
            dealer == p1'.score = p1.score + 1 /\ p2'.score = p2.score
            player == p1'.score = p1.score /\ p2'.score = p2.score + 1
        IN  /\ (D > 21 /\ P > 21) => none
            /\ (D > 21 /\ P <= 21) => player
            /\ (D <= 21 /\ D >= P) => dealer
            /\ (D <= 21 /\ D < P /\ P <= 21) => player
            /\ (D <= 21 /\ D < P /\ P > 21) => dealer]_vars

\* C2 witness: a pass has resolved with both totals over 21
C2_Witness ==
    /\ lastcmd = "pass"
    /\ error = "none"
    /\ total_hand(p1.hand) > 21
    /\ total_hand(p2.hand) > 21

\* C3: on pass the dealer draws one card at a time from the top of the draw
\* pile while the dealer's total is below 18 and nothing once it is 18 or
\* more; when pass completes without error the dealer's total is at least 18
\* and playing is false, whatever state pass was issued in.
C3_DealerDrawsTo18 ==
    [][(lastcmd' = "pass" /\ error' = "none") =>
        LET old == Len(p1.hand)
            k   == Len(p1'.hand) - old
        IN  /\ k >= 0
            /\ k <= Len(cd.deck)
            /\ SubSeq(p1'.hand, 1, old) = p1.hand
            /\ \A i \in 1..k : p1'.hand[old + i] = cd.deck[Len(cd.deck) + 1 - i]
            /\ cd'.deck = SubSeq(cd.deck, 1, Len(cd.deck) - k)
            /\ \A j \in 0..(k - 1) :
                   total_hand(SubSeq(p1'.hand, 1, old + j)) < 18
            /\ total_hand(p1'.hand) >= 18
            /\ playing' = FALSE]_vars

\* C3 witness: a pass has completed in which the dealer drew two cards
C3_Witness ==
    /\ lastcmd = "pass"
    /\ error = "none"
    /\ ~playing
    /\ Len(p1.hand) = 4
    /\ total_hand(p1.hand) >= 18

\* C4: a hit issued while playing adds exactly one card to the player's hand
\* and none to the dealer's; if the player's total is then at most 21 the
\* game stays in play with both scores unchanged, and if it exceeds 21 the
\* dealer's score increases by exactly 1, the player's score is unchanged
\* and playing becomes false.
C4_HitWhilePlaying ==
    [][(playing /\ lastcmd' = "hit") =>
        /\ Len(p2'.hand) = Len(p2.hand) + 1
        /\ SubSeq(p2'.hand, 1, Len(p2.hand)) = p2.hand
        /\ p1'.hand = p1.hand
        /\ p2'.score = p2.score
        /\ IF total_hand(p2'.hand) <= 21
           THEN playing' = TRUE /\ p1'.score = p1.score
           ELSE playing' = FALSE /\ p1'.score = p1.score + 1]_vars

\* C4 witness: a hit has taken the player over 21 and the dealer has the point
C4_Witness ==
    /\ lastcmd = "hit"
    /\ ~playing
    /\ total_hand(p2.hand) > 21
    /\ p1.score >= 1

\* C5: a hit issued while playing is false leaves both hands, the draw pile,
\* the discard pile, both scores and the playing flag unchanged.
C5_HitAfterRound ==
    [][(~playing /\ lastcmd' = "hit") => UNCHANGED <<cd, p1, p2, playing>>]_vars

\* C5 witness: the last command was a hit although the round is over and the
\* player is not busted, so the hit was issued after a pass ended the round
C5_Witness ==
    /\ lastcmd = "hit"
    /\ ~playing
    /\ total_hand(p2.hand) <= 21
    /\ p1.score + p2.score >= 1

\* C6: a yes issued while playing is false moves every card of both hands to
\* the discard pile and then deals a new round: afterwards the dealer and
\* the player each hold exactly 2 cards, playing is true, quitting is false
\* and both scores are as before.  The four cards come off the draw pile when
\* it holds four; otherwise the discard pile, with the old hands in it, has
\* been shuffled into the draw pile and is empty.
C6_YesDealsNewRound ==
    [][(~playing /\ lastcmd' = "yes") =>
        /\ error' = "none"
        /\ Len(p1'.hand) = 2
        /\ Len(p2'.hand) = 2
        /\ playing' = TRUE
        /\ quitting' = FALSE
        /\ p1'.score = p1.score
        /\ p2'.score = p2.score
        /\ IF Len(cd.deck) >= 4
           THEN cd'.discard = cd.discard \o p1.hand \o p2.hand
           ELSE /\ cd'.discard = <<>>
                /\ Len(cd'.deck) = Len(FullDeck) - 4]_vars

\* C6 witness: a new round has been dealt by yes after a scored round
C6_Witness ==
    /\ lastcmd = "yes"
    /\ playing
    /\ ~quitting
    /\ p1.score + p2.score >= 1
    /\ Len(p1.hand) = 2
    /\ Len(p2.hand) = 2

\* C7: a yes issued while playing is true leaves both hands, the draw pile,
\* the discard pile, both scores and the playing flag unchanged.
C7_YesWhilePlaying ==
    [][(playing /\ lastcmd' = "yes") => UNCHANGED <<cd, p1, p2, playing>>]_vars

\* C7 witness: the last command was a yes and the player holds the third
\* card of a hit, so the yes was issued in mid-round
C7_Witness ==
    /\ lastcmd = "yes"
    /\ playing
    /\ Len(p2.hand) = 3

\* C8: a no issued while playing with quitting false does not end the session
\* and changes no hand, pile or score; a second no right after it ends the
\* session; a no issued while playing is false ends the session at once.
C8_QuitConfirmation ==
    [][(lastcmd' = "no") =>
        /\ (playing /\ ~quitting) =>
               stop' = FALSE /\ UNCHANGED <<cd, p1, p2, playing>>
        /\ (playing /\ lastcmd = "no") => stop' = TRUE
        /\ ~playing => stop' = TRUE]_vars

\* C8 witness: the session has ended on the second of two consecutive no's
C8_Witness ==
    /\ stop
    /\ playing
    /\ history = <<"no", "no">>

\* C9: every hit, pass and yes sets quitting to false, in any state; so after
\* no, hit (not busting), no the session has not ended and waits again for
\* the confirmation.
C9_CommandsResetQuitting ==
    [][/\ lastcmd' \in {"hit", "pass", "yes"} => quitting' = FALSE
       /\ (history = <<"no", "hit">> /\ playing /\ lastcmd' = "no") =>
              stop' = FALSE /\ quitting' = TRUE]_vars

\* C9 witness: no, hit, no have been issued in a round and the session is
\* waiting for the confirmation
C9_Witness ==
    /\ history = <<"no", "hit", "no">>
    /\ playing
    /\ ~stop
    /\ quitting

\* C10 as stated: an unrecognized command resets quitting to false, so after
\* no (while playing), an unrecognized command and a further no the session
\* has not ended but asks for the confirmation again.
C10_UnknownResetsQuitting ==
    /\ lastcmd = "unknown" => ~quitting
    /\ history = <<"no", "unknown", "no">> => (~stop /\ quitting)

\* C10 amended: an unrecognized command leaves quitting, like the rest of
\* the game, unchanged; so after no (while playing), an unrecognized command
\* and a further no the session has ended.
C10_UnknownKeepsQuitting ==
    [][/\ lastcmd' = "unknown" =>
              UNCHANGED <<cd, p1, p2, playing, quitting, stop, error>>
       /\ (history = <<"no", "unknown">> /\ lastcmd' = "no") =>
              stop' = TRUE]_vars

\* C10 witness: the session has ended on the no that followed no and an
\* unrecognized command
C10_Witness ==
    /\ history = <<"no", "unknown", "no">>
    /\ stop
    /\ quitting

\* C11 as stated: the flags always match AwaitingPlayerAction (playing),
\* RoundOver (not playing, not quitting) or ConfirmingQuit (not playing,
\* quitting): in every reachable state where quitting is true, playing is
\* false.
C11_QuittingOnlyAfterRound == quitting => ~playing

\* C11 amended: the confirmation is pending only in mid-round: in every
\* reachable state where quitting is true, playing is true.
C11_QuittingOnlyWhilePlaying == quitting => playing

\* C11 witness: a no has asked for the confirmation and the loop goes on
C11_Witness ==
    /\ quitting
    /\ playing
    /\ ~stop
    /\ lastcmd = "no"

\* C12: no sequence of commands reaches a pass resolution in which both the
\* dealer's total and the player's total exceed 21.
C12_NoTieAtPass ==
    ~(/\ lastcmd = "pass"
      /\ error = "none"
      /\ ~playing
      /\ total_hand(p1.hand) > 21
      /\ total_hand(p2.hand) > 21)

C19_HandsWhilePlaying ==
    playing =>
        /\ total_hand(p2.hand) <= 21
        /\ Len(p2.hand) >= 2
        /\ Len(p1.hand) = 2

\* C19 amended: in every reachable state with playing true, the player's
\* total is at most 21 and the player holds at least 2 cards; the dealer
\* holds exactly 2 cards unless a pass has failed on the empty draw pile,
\* which leaves playing true and the dealer with the cards drawn before it.
C19_HandsWhilePlayingUnlessFailed ==
    playing =>
        /\ total_hand(p2.hand) <= 21
        /\ Len(p2.hand) >= 2
        /\ IF error = "none"
           THEN Len(p1.hand) = 2
           ELSE lastcmd = "pass" /\ Len(p1.hand) >= 2 /\ cd.deck = <<>>

\* C19 witness: in mid-round after a hit that did not bust
C19_Witness ==
    /\ playing
    /\ error = "none"
    /\ lastcmd = "hit"
    /\ Len(p2.hand) = 3
    /\ total_hand(p2.hand) <= 21
    /\ Len(p1.hand) = 2

\* C20: scores never decrease, and within one round the sum of the two
\* scores increases by at most 1, commands issued after the round is over
\* included: a command adds at most 1, and none adds anything while playing
\* is false.
C20_OnePointPerRound ==
    [][/\ p1'.score >= p1.score
       /\ p2'.score >= p2.score
       /\ p1'.score + p2'.score <= p1.score + p2.score + 1
       /\ ~playing => p1'.score + p2'.score = p1.score + p2.score]_vars

\* the cards of the sequence s
CardsOf(s) == {s[i] : i \in 1..Len(s)}

\* C13: Player.hit with a non-empty draw pile moves exactly its top card
\* (the end of the sequence) to the end of the hand and leaves the discard
\* pile unchanged; with an empty draw pile and discards it moves every
\* discard to the draw pile and deals one of them, so that afterwards the
\* discard pile is empty and the draw pile holds the former discards less 1.
C13_HitTopOrRecycle ==
    [][(/\ history = <<>>
        /\ history' # <<>>
        /\ history'[1] = "Player.hit") =>
           /\ error' = "none"
           /\ Len(p2'.hand) = Len(p2.hand) + 1
           /\ SubSeq(p2'.hand, 1, Len(p2.hand)) = p2.hand
           /\ IF cd.deck # <<>>
              THEN /\ p2'.hand[Len(p2'.hand)] = cd.deck[Len(cd.deck)]
                   /\ cd'.deck = SubSeq(cd.deck, 1, Len(cd.deck) - 1)
                   /\ cd'.discard = cd.discard
              ELSE /\ cd'.discard = <<>>
                   /\ Len(cd'.deck) = Len(cd.discard) - 1
                   /\ CardsOf(cd'.deck) \cup {p2'.hand[Len(p2'.hand)]}
                          = CardsOf(cd.discard)]_vars

\* C13 witness: a hit that found the draw pile empty, shuffled the two
\* discards in and dealt one of them
C13_Witness ==
    /\ history = <<"Player.hit", "recycled">>
    /\ error = "none"
    /\ Len(p2.hand) = 3
    /\ cd.discard = <<>>
    /\ Len(cd.deck) = 1

\* C14: the dealer's draws in pass do not recycle discards.  A pass never
\* changes the discard pile; when the dealer's total is below 18 and the
\* draw pile is empty, with discards or without, it ends in an error with
\* the piles and the hands as they were; and a pass that ends in an error
\* awards no score and leaves playing as it was.
C14_PassDoesNotRecycle ==
    [][lastcmd' = "pass" =>
           /\ cd'.discard = cd.discard
           /\ (DealerMustDraw(p1.hand) /\ cd.deck = <<>>) =>
                  /\ error' = "IndexError"
                  /\ cd' = cd
                  /\ p1' = p1
           /\ error' # "none" =>
                  /\ cd'.deck = <<>>
                  /\ DealerMustDraw(p1'.hand)
                  /\ p1'.score = p1.score
                  /\ p2' = p2
                  /\ playing' = playing]_vars

\* C14 witness: a pass in mid-round has failed on the empty draw pile while
\* the discard pile held a card
C14_Witness ==
    /\ lastcmd = "pass"
    /\ error = "IndexError"
    /\ playing
    /\ cd.deck = <<>>
    /\ cd.discard # <<>>
    /\ p1.score + p2.score = 0

\* the value of a card by its rank, as the specification gives it
ValueOfRank(rank) == IF rank \in {1, 11, 12, 13} THEN 10 ELSE rank

RECURSIVE RawSum(_)
RawSum(hand) ==
    IF hand = <<>> THEN 0
    ELSE ValueOfRank(Head(hand).rank) + RawSum(Tail(hand))

AcesIn(hand) == Cardinality({i \in 1..Len(hand) : hand[i].rank = 1})

RanksOf(hand) == [i \in 1..Len(hand) |-> hand[i].rank]

C16_FewestAces ==
    (history # <<>> /\ RawSum(p2.hand) > 21) =>
        LET raw    == RawSum(p2.hand)
            aces   == AcesIn(p2.hand)
            enough == {n \in 0..aces : raw - 9 * n <= 21}
            k      == IF enough = {} THEN aces
                      ELSE CHOOSE n \in enough : \A m \in enough : n <= m
        IN  history[2] = raw - 9 * k

\* C17: a deal hands out four cards interleaved dealer, player, dealer,
\* player from the top (the end) of the draw pile: the dealer receives the
\* 1st and 3rd cards drawn and the player the 2nd and 4th; cards the draw
\* pile does not hold come from the discards shuffled in; the round starts
\* with playing true and quitting false.
C17_DealInterleaved ==
    [][history' = <<"start_game">> =>
           LET n     == Len(cd.deck)
               drawn == <<p1'.hand[1], p2'.hand[1], p1'.hand[2], p2'.hand[2]>>
           IN  /\ error' = "none"
               /\ Len(p1'.hand) = 2
               /\ Len(p2'.hand) = 2
               /\ \A i \in 1..4 :
                      IF i <= n THEN drawn[i] = cd.deck[n + 1 - i]
                      ELSE drawn[i] \in CardsOf(cd.discard)
               /\ IF n >= 4
                  THEN /\ cd'.deck = SubSeq(cd.deck, 1, n - 4)
                       /\ cd'.discard = cd.discard
                  ELSE cd'.discard = <<>>
               /\ playing'
               /\ ~quitting']_vars

\* C17 witness: a deal of four cards from a draw pile of five, with a card
\* in the discard pile
C17_Witness ==
    /\ history = <<"start_game">>
    /\ playing
    /\ ~quitting
    /\ Len(p1.hand) = 2
    /\ Len(p2.hand) = 2
    /\ Len(cd.deck) = 1
    /\ Len(cd.discard) = 1
====
